---- MODULE Spec2Model ----
(***************************************************************************)
(* BackgroundAnimation (src/unnamed/part_001): a canvas particle field.    *)
(* The effect body mounts the renderer (reads the pixel ratio, seeds the   *)
(* particles, observes the canvas, resizes, runs the first frame); the     *)
(* host then runs the requested animation frames and delivers resize       *)
(* notifications until the effect cleanup cancels the pending frame and    *)
(* disconnects the observer.                                               *)
(*                                                                         *)
(* Units: positions and velocities are integers in 1/UnitsPerPx of a       *)
(* logical pixel; clientWidth/clientHeight and canvas.width/height are     *)
(* whole pixels; pixel ratios are integers in 1/DprUnit; radii are in      *)
(* thousandths of a pixel.                                                 *)
(***************************************************************************)
EXTENDS Integers, Sequences, FiniteSets

\* ---------------------------------------------------------------- bounds
N == 3              \* particles created at mount (the source creates 36)
MaxFrames == 2      \* frames run by the host after the one run at mount
MaxEnvChanges == 1  \* container size / pixel ratio changes by the host
UnitsPerPx == 16    \* position resolution: sub-pixel units per logical px
DprUnit == 2        \* pixel-ratio resolution: units per 1.0
InnerWidth == 1024  \* window.innerWidth, px
InnerHeight == 768  \* window.innerHeight, px

\* ------------------------------------------------------ program constants
MarginPx == 20      \* wraparound margin
LinkDistPx == 120   \* link threshold

Margin == MarginPx * UnitsPerPx
LinkDist == LinkDistPx * UnitsPerPx

\* ------------------------------------------------------------ host inputs
\* Container content-box sizes (clientWidth, clientHeight) the host may report.
Sizes == { <<800, 600>>, <<400, 300>>, <<401, 301>> }

\* The container's size when the effect runs.
InitialSize == <<800, 600>>

\* window.devicePixelRatio values: 0.5, 1.5, 2.
Dprs == { DprUnit \div 2, (3 * DprUnit) \div 2, 2 * DprUnit }

\* Outcomes of the five Math.random() draws of one particle: x, y in
\* [0, inner size), vx, vy in [-0.125, 0.125) px, r in [1.2, 3.0) px.
ParticleSeeds ==
  { [x |-> 300 * UnitsPerPx, y |-> 320 * UnitsPerPx, vx |-> 1, vy |-> 1, r |-> 1200],
    [x |-> 420 * UnitsPerPx + 1, y |-> 320 * UnitsPerPx, vx |-> 0, vy |-> 1, r |-> 2100],
    [x |-> 900 * UnitsPerPx, y |-> 700 * UnitsPerPx, vx |-> -2, vy |-> -1, r |-> 2999] }

SeedInRange(s) ==
  /\ 0 <= s.x /\ s.x < InnerWidth * UnitsPerPx
  /\ 0 <= s.y /\ s.y < InnerHeight * UnitsPerPx
  /\ -UnitsPerPx <= 8 * s.vx /\ 8 * s.vx < UnitsPerPx
  /\ -UnitsPerPx <= 8 * s.vy /\ 8 * s.vy < UnitsPerPx
  /\ 1200 <= s.r /\ s.r < 3000

VARIABLES
  pc,          \* "init" (rendered, effect not run), "mounted", "unmounted"
  last,        \* the operation that produced this state
  hostDpr,     \* window.devicePixelRatio
  clientW,     \* canvas.clientWidth
  clientH,     \* canvas.clientHeight
  dpi,         \* let dpi
  w,           \* let w
  h,           \* let h
  canvasW,     \* canvas.width
  canvasH,     \* canvas.height
  transform,   \* the context's current transform <<a, b, c, d, e, f>>
  particles,   \* const particles
  rafRef,      \* rafRef.current
  rafQueue,    \* the host's requested, not yet run or cancelled, frame handles
  nextHandle,  \* the handle the next requestAnimationFrame returns
  roObserving, \* ro observes the canvas
  roLast,      \* the size ro last reported
  ops,         \* the context and host calls made by the last operation
  decisions,   \* the link decisions of the last frame
  frames,      \* frames run by the host
  envChanges   \* host changes so far

vars == << pc, last, hostDpr, clientW, clientH, dpi, w, h, canvasW, canvasH,
           transform, particles, rafRef, rafQueue, nextHandle, roObserving,
           roLast, ops, decisions, frames, envChanges >>

Identity == << DprUnit, 0, 0, DprUnit, 0, 0 >>

Op(name, a, b, c, d) == [op |-> name, a |-> a, b |-> b, c |-> c, d |-> d]

Max(a, b) == IF a >= b THEN a ELSE b

\* Math.max(1, window.devicePixelRatio || 1)
ReadDpi(dpr) == Max(DprUnit, IF dpr = 0 THEN DprUnit ELSE dpr)

\* Math.floor(size * dpi)
Physical(size, ratio) == (size * ratio) \div DprUnit

\* ------------------------------------------------------------------ resize
\* resize(): the new w, h, canvas size and transform. Assigning canvas.width
\* or canvas.height resets the context (transform back to identity); the
\* setTransform call that follows sets the scale.
ResizeNoTransform(cw, ch, ratio) ==
  [w |-> cw, h |-> ch,
   canvasW |-> Physical(cw, ratio), canvasH |-> Physical(ch, ratio),
   transform |-> Identity,
   ops |-> << >>]

ResizeCanvasOnly(cw, ch, ratio) ==
  [w |-> 0, h |-> 0,
   canvasW |-> Physical(cw, ratio), canvasH |-> Physical(ch, ratio),
   transform |-> << ratio, 0, 0, ratio, 0, 0 >>,
   ops |-> << Op("setTransform", ratio, 0, 0, ratio) >>]

Resize(cw, ch, ratio) ==
  [w |-> cw, h |-> ch,
   canvasW |-> Physical(cw, ratio), canvasH |-> Physical(ch, ratio),
   transform |-> << ratio, 0, 0, ratio, 0, 0 >>,
   ops |-> << Op("setTransform", ratio, 0, 0, ratio) >>]

\* ------------------------------------------------------------------- step
\* dx*dx + dy*dy: Math.hypot(dx, dy) < 120 is decided on the squares.
Dist2(p, q) == (p.x - q.x) * (p.x - q.x) + (p.y - q.y) * (p.y - q.y)

LinkedInclusive(p, q) == Dist2(p, q) <= LinkDist * LinkDist

Linked(p, q) == Dist2(p, q) < LinkDist * LinkDist

RECURSIVE InnerLoop(_, _, _)
InnerLoop(ps, i, j) ==
  IF j > Len(ps) THEN << >>
  ELSE << [i |-> i, j |-> j, d2 |-> Dist2(ps[i], ps[j]),
           drawn |-> Linked(ps[i], ps[j])] >>
       \o InnerLoop(ps, i, j + 1)

RECURSIVE OuterLoop(_, _)
OuterLoop(ps, i) ==
  IF i > Len(ps) THEN << >>
  ELSE InnerLoop(ps, i, i + 1) \o OuterLoop(ps, i + 1)

\* The nested loops of "draw links", in visiting order.
LinkDecisions(ps) == OuterLoop(ps, 1)

RECURSIVE StrokeOps(_, _)
StrokeOps(ps, ds) ==
  IF ds = << >> THEN << >>
  ELSE LET d == Head(ds)
       IN (IF d.drawn
           THEN << Op("stroke", ps[d.i].x, ps[d.i].y, ps[d.j].x, ps[d.j].y) >>
           ELSE << >>) \o StrokeOps(ps, Tail(ds))

WrapLowerOnly(v, size) ==
  IF v < -Margin THEN size * UnitsPerPx + Margin ELSE v

WrapClamp(v, size) ==
  IF v < -Margin THEN -Margin
  ELSE IF v > size * UnitsPerPx + Margin THEN size * UnitsPerPx + Margin
  ELSE v

\* if (v < -20) v = size + 20; if (v > size + 20) v = -20
Wrap(v, size) ==
  LET v1 == IF v < -Margin THEN size * UnitsPerPx + Margin ELSE v
  IN IF v1 > size * UnitsPerPx + Margin THEN -Margin ELSE v1

UpdateReflect(p, cw, ch) ==
  LET ax == p.x + p.vx
      ay == p.y + p.vy
  IN [p EXCEPT !.x = Wrap(ax, cw), !.y = Wrap(ay, ch),
               !.vx = IF Wrap(ax, cw) # ax THEN -p.vx ELSE p.vx,
               !.vy = IF Wrap(ay, ch) # ay THEN -p.vy ELSE p.vy]

\* p.x += p.vx; p.y += p.vy; the four wraparound tests
Update(p, cw, ch) ==
  [p EXCEPT !.x = Wrap(p.x + p.vx, cw), !.y = Wrap(p.y + p.vy, ch)]

DrawOps(p) ==
  << Op("arc", p.x, p.y, p.r * 5, 0), Op("arc", p.x, p.y, p.r, 0) >>

RECURSIVE ParticleOps(_, _)
ParticleOps(ps, i) ==
  IF i > Len(ps) THEN << >> ELSE DrawOps(ps[i]) \o ParticleOps(ps, i + 1)

RECURSIVE DropWrapped(_, _, _)
DropWrapped(ps, cw, ch) ==
  IF ps = << >> THEN << >>
  ELSE LET p == Head(ps)
           q == Update(p, cw, ch)
       IN (IF q.x # p.x + p.vx \/ q.y # p.y + p.vy THEN << >> ELSE << q >>)
          \o DropWrapped(Tail(ps), cw, ch)

\* "draw particles": every particle updated in place, in array order
UpdateAll(ps, cw, ch) == [i \in 1..Len(ps) |-> Update(ps[i], cw, ch)]

StepTwoRequests(ps, cw, ch, handle) ==
  LET ds == LinkDecisions(ps)
      moved == UpdateAll(ps, cw, ch)
  IN [particles |-> moved,
      decisions |-> ds,
      ops |-> << Op("clearRect", 0, 0, cw, ch) >>
              \o StrokeOps(ps, ds)
              \o << Op("requestAnimationFrame", handle, 0, 0, 0) >>
              \o ParticleOps(moved, 1)
              \o << Op("requestAnimationFrame", handle + 1, 0, 0, 0) >>,
      requested |-> << handle, handle + 1 >>]

\* step(): the frame body run with the closure's w and h; handle is what
\* requestAnimationFrame returns for the request made at its end.
Step(ps, cw, ch, handle) ==
  LET ds == LinkDecisions(ps)
      moved == UpdateAll(ps, cw, ch)
  IN [particles |-> moved,
      decisions |-> ds,
      ops |-> << Op("clearRect", 0, 0, cw, ch) >>
              \o StrokeOps(ps, ds)
              \o ParticleOps(moved, 1)
              \o << Op("requestAnimationFrame", handle, 0, 0, 0) >>,
      requested |-> << handle >>]

\* The handle left in rafRef.current by a frame: the last one it requested.
Stored(f) == f.requested[Len(f.requested)]

Handles(f) == { f.requested[k] : k \in 1..Len(f.requested) }

\* ------------------------------------------------------------------- state
Init ==
  /\ pc = "init"
  /\ last = "render"
  /\ hostDpr \in Dprs
  /\ clientW = InitialSize[1]
  /\ clientH = InitialSize[2]
  /\ dpi = 0
  /\ w = 0
  /\ h = 0
  /\ canvasW = 300
  /\ canvasH = 150
  /\ transform = Identity
  /\ particles = << >>
  /\ rafRef = 0
  /\ rafQueue = {}
  /\ nextHandle = 1
  /\ roObserving = FALSE
  /\ roLast = << 0, 0 >>
  /\ ops = << >>
  /\ decisions = << >>
  /\ frames = 0
  /\ envChanges = 0

\* The effect body: read dpi, seed the particles, observe, resize(), step().
Mount ==
  /\ pc = "init"
  /\ \E seeds \in [1..N -> ParticleSeeds] :
       LET ratio == ReadDpi(hostDpr)
           created == [i \in 1..N |->
                        [id |-> i, x |-> seeds[i].x, y |-> seeds[i].y,
                         vx |-> seeds[i].vx, vy |-> seeds[i].vy, r |-> seeds[i].r]]
           r == Resize(clientW, clientH, ratio)
           f == Step(created, r.w, r.h, nextHandle)
       IN /\ \A i \in 1..N : SeedInRange(seeds[i])
          /\ dpi' = ratio
          /\ w' = r.w
          /\ h' = r.h
          /\ canvasW' = r.canvasW
          /\ canvasH' = r.canvasH
          /\ transform' = r.transform
          /\ particles' = f.particles
          /\ decisions' = f.decisions
          /\ ops' = << Op("observe", 0, 0, 0, 0) >> \o r.ops \o f.ops
          /\ rafRef' = Stored(f)
          /\ rafQueue' = rafQueue \cup Handles(f)
          /\ nextHandle' = nextHandle + Len(f.requested)
  /\ roObserving' = TRUE
  /\ roLast' = << 0, 0 >>
  /\ pc' = "mounted"
  /\ last' = "mount"
  /\ UNCHANGED << hostDpr, clientW, clientH, frames, envChanges >>

\* The host runs a requested frame callback: step().
RunFrame ==
  /\ frames < MaxFrames
  /\ \E hd \in rafQueue :
       LET f == Step(particles, w, h, nextHandle)
       IN /\ particles' = f.particles
          /\ decisions' = f.decisions
          /\ ops' = f.ops
          /\ rafRef' = Stored(f)
          /\ rafQueue' = (rafQueue \ {hd}) \cup Handles(f)
          /\ nextHandle' = nextHandle + Len(f.requested)
  /\ frames' = frames + 1
  /\ last' = "frame"
  /\ UNCHANGED << pc, hostDpr, clientW, clientH, dpi, w, h, canvasW, canvasH,
                  transform, roObserving, roLast, envChanges >>

\* The ResizeObserver delivers a notification: resize().
ResizeNotify ==
  /\ roObserving
  /\ roLast # << clientW, clientH >>
  /\ LET r == Resize(clientW, clientH, dpi)
     IN /\ w' = r.w
        /\ h' = r.h
        /\ canvasW' = r.canvasW
        /\ canvasH' = r.canvasH
        /\ transform' = r.transform
        /\ ops' = r.ops
  /\ roLast' = << clientW, clientH >>
  /\ last' = "resize"
  /\ UNCHANGED << pc, hostDpr, clientW, clientH, dpi, particles, rafRef,
                  rafQueue, nextHandle, roObserving, decisions, frames,
                  envChanges >>

UnmountKeepFrame ==
  /\ pc = "mounted"
  /\ rafQueue' = rafQueue \ {0}
  /\ roObserving' = FALSE
  /\ pc' = "unmounted"
  /\ last' = "unmount"
  /\ ops' = << Op("cancelAnimationFrame", 0, 0, 0, 0),
               Op("disconnect", 0, 0, 0, 0) >>
  /\ UNCHANGED << hostDpr, clientW, clientH, dpi, w, h, canvasW, canvasH,
                  transform, particles, rafRef, nextHandle, roLast, decisions,
                  frames, envChanges >>

\* The effect cleanup: cancelAnimationFrame(rafRef.current); ro.disconnect().
Unmount ==
  /\ pc = "mounted"
  /\ rafQueue' = rafQueue \ {rafRef}
  /\ roObserving' = FALSE
  /\ pc' = "unmounted"
  /\ last' = "unmount"
  /\ ops' = << Op("cancelAnimationFrame", rafRef, 0, 0, 0),
               Op("disconnect", 0, 0, 0, 0) >>
  /\ UNCHANGED << hostDpr, clientW, clientH, dpi, w, h, canvasW, canvasH,
                  transform, particles, rafRef, nextHandle, roLast, decisions,
                  frames, envChanges >>

\* The host lays the container out at another size.
ContainerResize ==
  /\ pc # "init"
  /\ envChanges < MaxEnvChanges
  /\ \E s \in Sizes :
       /\ s # << clientW, clientH >>
       /\ clientW' = s[1]
       /\ clientH' = s[2]
  /\ envChanges' = envChanges + 1
  /\ last' = "layout"
  /\ ops' = << >>
  /\ UNCHANGED << pc, hostDpr, dpi, w, h, canvasW, canvasH, transform,
                  particles, rafRef, rafQueue, nextHandle, roObserving, roLast,
                  decisions, frames >>

\* The host's device pixel ratio changes (zoom, another display).
DprChange ==
  /\ pc # "init"
  /\ envChanges < MaxEnvChanges
  /\ \E d \in Dprs :
       /\ d # hostDpr
       /\ hostDpr' = d
  /\ envChanges' = envChanges + 1
  /\ last' = "dpr"
  /\ ops' = << >>
  /\ UNCHANGED << pc, clientW, clientH, dpi, w, h, canvasW, canvasH, transform,
                  particles, rafRef, rafQueue, nextHandle, roObserving, roLast,
                  decisions, frames >>

Next ==
  \/ Mount
  \/ RunFrame
  \/ ResizeNotify
  \/ Unmount
  \/ ContainerResize
  \/ DprChange

Spec == Init /\ [][Next]_vars

\* ================================================================== claims
Lo == -(MarginPx * UnitsPerPx)

Hi(size) == (size + MarginPx) * UnitsPerPx

IsFrameState == last \in {"mount", "frame"}

OpsNamed(name) == { k \in DOMAIN ops : ops[k].op = name }

\* C1: once the cleanup has returned no frame is left scheduled and no frame
\* body (nor any other operation of the renderer) runs: every state after
\* unmount has an empty frame queue and was produced by the cleanup itself or
\* by the host changing the container or the pixel ratio; the cleanup
\* cancelled exactly the handle stored in rafRef.
C1_NoFrameAfterUnmount ==
  pc = "unmounted" =>
    /\ rafQueue = {}
    /\ last \in {"unmount", "layout", "dpr"}
    /\ (last = "unmount" =>
          ops[1] = [op |-> "cancelAnimationFrame", a |-> rafRef, b |-> 0,
                    c |-> 0, d |-> 0])

C1_Witness == pc = "unmounted" /\ last = "unmount" /\ frames >= 2

\* C2: right after a frame's position update every particle's x lies in
\* [-20, w + 20] and its y in [-20, h + 20], for the w and h of that frame.
C2_InsideExpandedBox ==
  IsFrameState =>
    \A i \in DOMAIN particles :
      /\ Lo <= particles[i].x /\ particles[i].x <= Hi(w)
      /\ Lo <= particles[i].y /\ particles[i].y <= Hi(h)

C2_Witness ==
  /\ last = "frame"
  /\ w < InitialSize[1]
  /\ \E i \in DOMAIN particles : particles[i].x = Hi(w)
  /\ \E j \in DOMAIN particles : particles[j].y = Lo

\* C3: in a frame a coordinate advanced past size + 20 ends at exactly -20,
\* one advanced below -20 ends at exactly size + 20, and any other keeps
\* old + velocity; for x against w and for y against h.
Wrapped(advanced, size) ==
  IF advanced > Hi(size) THEN Lo
  ELSE IF advanced < Lo THEN Hi(size)
  ELSE advanced

C3_WrapToOppositeEdge ==
  [][last' = "frame" =>
       /\ DOMAIN particles' = DOMAIN particles
       /\ \A i \in DOMAIN particles :
            /\ particles'[i].x = Wrapped(particles[i].x + particles[i].vx, w)
            /\ particles'[i].y = Wrapped(particles[i].y + particles[i].vy, h)]_vars

C3_Witness ==
  /\ last = "frame"
  /\ frames = 2
  /\ \E i \in DOMAIN particles : particles[i].x = Lo
  /\ \E j \in DOMAIN particles : particles[j].x \notin {Lo, Hi(w)}

\* C4: after every resize notification the backing buffer is the container's
\* current size times the host's current pixel ratio, and the transform
\* scales by that current ratio.
C4_ResizeUsesCurrentRatio ==
  last = "resize" =>
    LET current == ReadDpi(hostDpr)
    IN /\ canvasW = (clientW * current) \div DprUnit
       /\ canvasH = (clientH * current) \div DprUnit
       /\ transform = << current, 0, 0, current, 0, 0 >>

\* C5: with d the ratio the renderer holds, after a resize notification for
\* a W x H container the buffer is floor(W*d) x floor(H*d) and the transform
\* is a pure scale by d; every frame until the next resize clears exactly
\* (0, 0, W, H) as its first drawing call.
IsFloorOf(n, size, ratio) ==
  n * DprUnit <= size * ratio /\ size * ratio < (n + 1) * DprUnit

PairsInOrder(ds) ==
  \A k \in 1..(Len(ds) - 1) :
    \/ ds[k].i < ds[k + 1].i
    \/ ds[k].i = ds[k + 1].i /\ ds[k].j < ds[k + 1].j

C6_LinkDecisions ==
  [][last' = "frame" =>
       /\ \A i \in DOMAIN particles : \A j \in DOMAIN particles :
            i < j =>
              Cardinality({ k \in DOMAIN decisions' :
                              decisions'[k].i = i /\ decisions'[k].j = j }) = 1
       /\ \A k \in DOMAIN decisions' :
            LET e == decisions'[k]
                p == particles[e.i]
                q == particles[e.j]
                sq == (p.x - q.x) * (p.x - q.x) + (p.y - q.y) * (p.y - q.y)
                near == sq < (LinkDistPx * UnitsPerPx) * (LinkDistPx * UnitsPerPx)
                strokes == { n \in DOMAIN ops' :
                               ops'[n] = [op |-> "stroke", a |-> p.x, b |-> p.y,
                                          c |-> q.x, d |-> q.y] }
            IN /\ e.i < e.j
               /\ e.drawn = near
               /\ near => strokes # {}
               /\ ~near => strokes = {}
       /\ PairsInOrder(decisions')
       /\ Cardinality({ n \in DOMAIN ops' : ops'[n].op = "stroke" })
            = Cardinality({ k \in DOMAIN decisions' : decisions'[k].drawn })]_vars

C6_Witness ==
  /\ last = "frame"
  /\ \E k \in DOMAIN decisions :
       /\ decisions[k].d2 = LinkDist * LinkDist
       /\ ~decisions[k].drawn
  /\ \E k \in DOMAIN decisions : decisions[k].drawn

\* C7: from mount on the array holds the N particles created at mount, each
\* still in its place.
C7_ParticleCount ==
  pc # "init" =>
    /\ Len(particles) = N
    /\ \A i \in 1..N : particles[i].id = i

C7_Witness ==
  /\ pc = "unmounted"
  /\ frames = 2
  /\ roLast # << 0, 0 >>
  /\ \E i \in DOMAIN particles : particles[i].y = Lo

\* C8: no operation changes a particle's velocity or radius; only a frame
\* changes positions, and it moves each coordinate by one velocity step
\* (or to the edge it wraps to).
C8_VelocityRadiusConstant ==
  [][pc # "init" =>
       /\ DOMAIN particles' = DOMAIN particles
       /\ \A i \in DOMAIN particles :
            /\ particles'[i].vx = particles[i].vx
            /\ particles'[i].vy = particles[i].vy
            /\ particles'[i].r = particles[i].r
            /\ last' # "frame" =>
                 /\ particles'[i].x = particles[i].x
                 /\ particles'[i].y = particles[i].y
            /\ last' = "frame" =>
                 /\ particles'[i].x \in
                      {particles[i].x + particles[i].vx, Lo, Hi(w)}
                 /\ particles'[i].y \in
                      {particles[i].y + particles[i].vy, Lo, Hi(h)}]_vars

C8_Witness ==
  /\ last = "frame"
  /\ \E i \in DOMAIN particles :
       /\ particles[i].x = Hi(w)
       /\ particles[i].vx < 0
       /\ particles[i].r = 2999

\* C9: while mounted exactly one frame request is outstanding and rafRef
\* holds its handle; a frame makes one request, as its last call; the first
\* frame runs at mount right after the initial resize; requests made so far
\* are one per frame run plus the one made at mount.
C9_OneOutstandingFrame ==
  /\ pc = "mounted" => rafQueue = {rafRef}
  /\ pc # "init" => nextHandle = frames + 2
  /\ IsFrameState =>
       /\ OpsNamed("requestAnimationFrame") = {Len(ops)}
       /\ ops[Len(ops)].a = rafRef
  /\ last = "mount" =>
       /\ ops[1].op = "observe"
       /\ ops[2].op = "setTransform"
       /\ ops[3].op = "clearRect"
       /\ OpsNamed("clearRect") = {3}

C9_Witness ==
  /\ pc = "mounted"
  /\ last = "frame"
  /\ frames = 2
  /\ rafRef = 3
  /\ rafQueue = {3}

\* C10: a frame clears a rectangle that, scaled by the transform in effect,
\* is the backing buffer: the w and h a frame uses are the ones the buffer
\* and the transform were last set from; no frame has run before the effect
\* sized the surface, where the resize precedes the first frame.
C10_FrameSeesAppliedResize ==
  /\ pc = "init" => ops = << >> /\ decisions = << >>
  /\ IsFrameState =>
       \A k \in OpsNamed("clearRect") :
         /\ ops[k].c = w /\ ops[k].d = h
         /\ IsFloorOf(canvasW, ops[k].c, transform[1])
         /\ IsFloorOf(canvasH, ops[k].d, transform[4])
         /\ (last = "mount" =>
               \E n \in OpsNamed("setTransform") : n < k)
  /\ last = "mount" => w = clientW /\ h = clientH

C10_Witness ==
  /\ last = "frame"
  /\ envChanges >= 1
  /\ roLast = << clientW, clientH >>
  /\ w = clientW /\ h = clientH
  /\ w = 401
  /\ canvasW = 601

====
